---------------------------- MODULE Spec2Model ----------------------------
(***************************************************************************)
(* Model of frag_test: the /proc/[pid]/pagemap decoder and reader          *)
(* (src/src/lib.rs) and the contiguity scan (src/src/main.rs).             *)
(*                                                                         *)
(* A u64 is modelled as the set of its set bit positions (a subset of      *)
(* 0..63), so that the masks, shifts and the 47-bit mapping address keep   *)
(* their exact values.  Page frame numbers that reach the scan are small   *)
(* and are carried as naturals by ToNat.                                   *)
(***************************************************************************)
EXTENDS Integers, Sequences, FiniteSets, TLC

VARIABLES
    endian,     \* byte order of the target: transmute is native-endian
    file,       \* the metadata source behind PageMap.file
    pos,        \* its cursor
    io,         \* the seeks and reads the current call has issued
    pc,         \* "idle", "loop" (inside process_allocated_mem), "returned"
    call,       \* the operation invoked and its arguments
    ret,        \* what the reader operation returned
    shown,      \* what Display::fmt wrote
    pages,      \* the Vec get_by_range handed to the scan
    idx,        \* number of pages the for loop has consumed
    contig,     \* process_allocated_mem: contig
    start,      \* process_allocated_mem: start
    prev,       \* process_allocated_mem: prev
    result,     \* process_allocated_mem: its io::Result
    stdout      \* process_allocated_mem: the two println! outputs

vars == <<endian, file, pos, io, pc, call, ret, shown, pages, idx,
          contig, start, prev, result, stdout>>

-----------------------------------------------------------------------------
(* u64 arithmetic on bit sets                                              *)

Bits == 0..63

Zero == {}

One == {0}

Pow2(n) == 2 ^ n

\* the numeric value of a u64 whose set bits are all below 31
ToNat(a) ==
    LET RECURSIVE Sum(_)
        Sum(S) == IF S = {} THEN 0
                  ELSE LET b == CHOOSE x \in S : TRUE
                       IN  Pow2(b) + Sum(S \ {b})
    IN  Sum(a)

\* the u64 holding a natural below 2^31
FromNat(n) == {b \in 0..30 : (n \div Pow2(b)) % 2 = 1}

And(a, b) == a \cap b

Or(a, b) == a \cup b

\* a << n, bits shifted past 63 are lost
Shl(a, n) == {b + n : b \in {x \in a : x + n <= 63}}

\* a >> n
Shr(a, n) == {b - n : b \in {x \in a : x >= n}}

\* a + b modulo 2^64: bit i of the sum is a_i xor b_i xor the carry into i;
\* a carry enters i when some lower bit generates one (both operands set)
\* and every bit in between propagates it (either operand set)
Add(a, b) ==
    LET gen == a \cap b
        carry(i) == \E j \in gen :
                        j < i /\ \A k \in (j + 1)..(i - 1) : k \in a \/ k \in b
    IN  {i \in Bits : ((i \in a) # (i \in b)) # carry(i)}

\* a - b modulo 2^64: a borrow leaves i when a_j < b_j at some lower bit and
\* no bit in between has a_k > b_k
Sub(a, b) ==
    LET gen == b \ a
        borrow(i) == \E j \in gen :
                         j < i /\ \A k \in (j + 1)..(i - 1) : ~(k \in a /\ k \notin b)
    IN  {i \in Bits : ((i \in a) # (i \in b)) # borrow(i)}

\* a < b, unsigned
Less(a, b) ==
    LET d == (a \ b) \cup (b \ a)
    IN  d # {} /\ (CHOOSE m \in d : \A x \in d : x <= m) \in b

\* a % m for m a power of two: the bits of a below the bit of m
ModPow2(a, m) == {b \in a : \A x \in m : b < x}

\* a u64 written as its hexadecimal digits, most significant first
FromHex(digits) ==
    LET n == Len(digits)
    IN  {b \in Bits : b \div 4 < n
                      /\ (digits[n - (b \div 4)] \div Pow2(b % 4)) % 2 = 1}

-----------------------------------------------------------------------------
(* lib.rs: constants and the SinglePageData accessors                      *)

PAGE_SHIFT == 12

PAGE_SIZE == Shl(One, PAGE_SHIFT)

\* variant: the check covers the 8-byte record, not the page
PAGE_OFFSET_MASK_record == Sub(Shl(One, 3), One)

\* PAGE_SIZE as u64 - 1
PAGE_OFFSET_MASK == Sub(PAGE_SIZE, One)

PAGEMAP_PRESENT_MASK == Shl(One, 63)

PAGEMAP_SWAP_MASK == Shl(One, 62)

PAGEMAP_FILE_MASK == Shl(One, 61)

PAGEMAP_EXCLUSIVE_MASK == Shl(One, 56)

PAGEMAP_SOFT_DIRTY_MASK == Shl(One, 55)

\* variant: the frame field one bit short (bits 53:0)
PAGEMAP_PFN_MASK_54 == Sub(Shl(One, 54), One)

PAGEMAP_PFN_MASK == Sub(Shl(One, 55), One)

present(self) == And(self, PAGEMAP_PRESENT_MASK) # Zero

swap(self) == And(self, PAGEMAP_SWAP_MASK) # Zero

file_backed(self) == And(self, PAGEMAP_FILE_MASK) # Zero

exclusive(self) == And(self, PAGEMAP_EXCLUSIVE_MASK) # Zero

soft_dirty(self) == And(self, PAGEMAP_SOFT_DIRTY_MASK) # Zero

pfn(self) == And(self, PAGEMAP_PFN_MASK)

\* Display::fmt: the five flag characters in their fixed order, then the
\* frame number (kept as the u64 that "{}" prints in decimal).
fmt(self) ==
    [flags |-> << IF present(self) THEN "P" ELSE "-",
                  IF swap(self) THEN "S" ELSE "-",
                  IF file_backed(self) THEN "F" ELSE "-",
                  IF exclusive(self) THEN "X" ELSE "-",
                  IF soft_dirty(self) THEN "D" ELSE "-" >>,
     number |-> pfn(self)]

-----------------------------------------------------------------------------
(* The metadata source: a seekable file of native-endian u64 records.     *)
(* It is sparse: every byte below file.base reads as 0, the bytes from    *)
(* file.base on are file.bytes, and the file ends after them.             *)

\* the k-th least significant byte of a u64
ByteOf(v, k) == ToNat(Shr(And(v, Shl(FromNat(255), 8 * k)), 8 * k))

\* the 8 bytes of a record as the kernel stores them
to_ne_bytes(v, e) ==
    [i \in 1..8 |-> ByteOf(v, IF e = "little" THEN i - 1 ELSE 8 - i)]

\* std::mem::transmute::<[u8; 8], SinglePageData>
transmute(data, e) ==
    UNION {Shl(FromNat(data[i]), 8 * (IF e = "little" THEN i - 1 ELSE 8 - i))
           : i \in 1..8}

FileLen(f) == Add(f.base, FromNat(Len(f.bytes)))

\* Seek::seek(SeekFrom::Start(off)): fails on a source that cannot seek
seek(f, off) == f.seekable

\* variant: a single Read::read, which returns what is there and leaves the
\* rest of the zeroed buffer as it was
read_partial(f, off, n) ==
    LET eof   == FileLen(f)
        rest  == Sub(eof, off)
        avail == IF ~Less(off, eof) THEN 0
                 ELSE IF (\E b \in rest : b > 30) \/ ToNat(rest) > n THEN n
                 ELSE ToNat(rest)
        r     == IF Less(off, f.base) THEN 0 ELSE ToNat(Sub(off, f.base))
    IN  [ok   |-> TRUE,
         data |-> [i \in 1..n |-> IF i <= avail /\ ~Less(off, f.base)
                                  THEN f.bytes[r + i] ELSE 0],
         pos  |-> Add(off, FromNat(avail))]

\* Read::read_exact of n bytes at cursor off: all n bytes or UnexpectedEof;
\* an empty buffer is always filled.
read_exact(f, off, n) ==
    LET endp == Add(off, FromNat(n))
        eof  == FileLen(f)
        ok   == n = 0 \/ ~Less(eof, endp)
        data == IF ~ok \/ n = 0 THEN <<>>
                ELSE IF ~Less(off, f.base)
                THEN LET r == ToNat(Sub(off, f.base))
                     IN  [i \in 1..n |-> f.bytes[r + i]]
                ELSE LET gap == Sub(f.base, off)
                     IN  IF ~Less(gap, FromNat(n))
                         THEN [i \in 1..n |-> 0]
                         ELSE LET g == ToNat(gap)
                              IN  [i \in 1..n |-> IF i <= g THEN 0
                                                  ELSE f.bytes[i - g]]
    IN  [ok   |-> ok,
         data |-> data,
         pos  |-> IF ok THEN endp
                  ELSE IF Less(off, eof) THEN eof ELSE off]

\* x * 8 on u64 (the operand is below 2^52, the product cannot overflow)
Times8(x) == Shl(x, 3)

Seek(off) == [op |-> "seek", at |-> off, len |-> 0]

ReadOp(off, n) == [op |-> "read", at |-> off, len |-> n]

Returned(kind, val, ops, p) == [kind |-> kind, val |-> val, io |-> ops, pos |-> p]

\* PageMap::get_by_vaddr.  val is <<page>> on success.
get_by_vaddr(f, e, p, vaddr) ==
    IF And(vaddr, PAGE_OFFSET_MASK) # Zero
    THEN Returned("Panic", <<>>, <<>>, p)
    ELSE LET offset == Times8(Shr(vaddr, PAGE_SHIFT))
         IN  IF ~seek(f, offset)
             THEN Returned("NotSeekable", <<>>, <<Seek(offset)>>, p)
             ELSE LET r == read_exact(f, offset, 8)
                      ops == <<Seek(offset), ReadOp(offset, 8)>>
                  IN  IF ~r.ok
                      THEN Returned("UnexpectedEof", <<>>, ops, r.pos)
                      ELSE Returned("Ok", <<transmute(r.data, e)>>, ops, r.pos)

\* vec![0; len]: an allocation that cannot fit the address space aborts
alloc_fails(len) == \E b \in len : b >= 47

\* the Vec<u8> buffer viewed in place as Vec<SinglePageData>: len / 8
\* records, each the native-endian reading of its 8 bytes.  The overlay
\* relies on the allocator handing out blocks aligned for u64, which the
\* system allocator does for every non-empty block; an empty buffer is
\* never dereferenced.
from_raw_parts(data, e) ==
    [i \in 1..(Len(data) \div 8) |->
        transmute([j \in 1..8 |-> data[8 * (i - 1) + j]], e)]

\* variant: the record index is used as the byte offset (no "* 8")
get_by_range_unscaled(f, e, p, start_, end_, overflow_checks) ==
    IF overflow_checks /\ Less(end_, start_)
    THEN Returned("Panic", <<>>, <<>>, p)
    ELSE LET span   == Sub(end_, start_)
             offset == Shr(start_, PAGE_SHIFT)
             len    == Times8(Shr(span, PAGE_SHIFT))
         IN  IF ModPow2(span, PAGE_SIZE) # Zero
             THEN Returned("Panic", <<>>, <<>>, p)
             ELSE IF ModPow2(start_, PAGE_SIZE) # Zero
             THEN Returned("Panic", <<>>, <<>>, p)
             ELSE IF alloc_fails(len)
             THEN Returned("Abort", <<>>, <<>>, p)
             ELSE IF ~seek(f, offset)
             THEN Returned("NotSeekable", <<>>, <<Seek(offset)>>, p)
             ELSE LET n   == ToNat(len)
                      r   == read_exact(f, offset, n)
                      ops == <<Seek(offset), ReadOp(offset, n)>>
                  IN  IF ~r.ok
                      THEN Returned("UnexpectedEof", <<>>, ops, r.pos)
                      ELSE Returned("Ok", from_raw_parts(r.data, e), ops, r.pos)

\* PageMap::get_by_range.  overflow_checks: the build panics on u64
\* overflow (debug) instead of wrapping (release).
get_by_range(f, e, p, start_, end_, overflow_checks) ==
    IF overflow_checks /\ Less(end_, start_)
    THEN Returned("Panic", <<>>, <<>>, p)
    ELSE LET span   == Sub(end_, start_)
             offset == Times8(Shr(start_, PAGE_SHIFT))
             len    == Times8(Shr(span, PAGE_SHIFT))
         IN  IF ModPow2(span, PAGE_SIZE) # Zero
             THEN Returned("Panic", <<>>, <<>>, p)
             ELSE IF ModPow2(start_, PAGE_SIZE) # Zero
             THEN Returned("Panic", <<>>, <<>>, p)
             ELSE IF alloc_fails(len)
             THEN Returned("Abort", <<>>, <<>>, p)
             ELSE IF ~seek(f, offset)
             THEN Returned("NotSeekable", <<>>, <<Seek(offset)>>, p)
             ELSE LET n   == ToNat(len)
                      r   == read_exact(f, offset, n)
                      ops == <<Seek(offset), ReadOp(offset, n)>>
                  IN  IF ~r.ok
                      THEN Returned("UnexpectedEof", <<>>, ops, r.pos)
                      ELSE Returned("Ok", from_raw_parts(r.data, e), ops, r.pos)

-----------------------------------------------------------------------------
(* main.rs                                                                 *)

MMAP_ADDR == FromHex(<<7, 15, 5, 7, 0, 7, 2, 0, 0, 0, 0, 0>>)

\* categorize: the BTreeMap from each value of the slice to its multiplicity
categorize(lens) ==
    LET RECURSIVE Insert(_, _)
        Insert(i, categorized) ==
            IF i > Len(lens) THEN categorized
            ELSE Insert(i + 1,
                        IF lens[i] \in DOMAIN categorized
                        THEN [categorized EXCEPT ![lens[i]] = @ + 1]
                        ELSE categorized @@ (lens[i] :> 1))
    IN  Insert(1, <<>>)

\* contig.iter().map(|(s, e)| e - s + 1)
RunLengths(c) == [i \in 1..Len(c) |-> c[i][2] - c[i][1] + 1]

-----------------------------------------------------------------------------
(* Inputs                                                                  *)

\* Largest number of records the metadata source holds for the mapping.
MaxPages == 3

\* Records the kernel may report for a mapped page: frame 0 (hidden from an
\* unprivileged reader) and frames 1..3 under assorted flags.
RecordChoices ==
    { PAGEMAP_PRESENT_MASK,
      Or(PAGEMAP_PRESENT_MASK, FromNat(1)),
      Or(Or(PAGEMAP_PRESENT_MASK, PAGEMAP_EXCLUSIVE_MASK), FromNat(2)),
      Or(Or(PAGEMAP_PRESENT_MASK, PAGEMAP_SOFT_DIRTY_MASK), FromNat(3)) }

RecordSeqs == UNION {[1..n -> RecordChoices] : n \in 0..MaxPages}

\* the file image of a sequence of records
Image(recs, e) ==
    [k \in 1..(8 * Len(recs)) |->
        to_ne_bytes(recs[((k - 1) \div 8) + 1], e)[((k - 1) % 8) + 1]]

\* offset of the record of the page at MMAP_ADDR
MappedOffset == Times8(Shr(MMAP_ADDR, PAGE_SHIFT))

PageBytes == Pow2(PAGE_SHIFT)

\* byte distances from MMAP_ADDR used as call arguments
Distances == {k * PageBytes : k \in 0..MaxPages} \cup {8, PageBytes + 2048}

Addresses == {Add(MMAP_ADDR, FromNat(d)) : d \in Distances}

\* range starts: the mapping, its second page, a misaligned address
Starts == {Add(MMAP_ADDR, FromNat(d)) : d \in {0, PageBytes, 8}}

\* the builds that behave differently on a call: whether u64 overflow
\* panics or wraps matters only when end < start
Builds(start_, end_) == IF Less(end_, start_) THEN BOOLEAN ELSE {TRUE}

\* raw values handed to the decoder: every combination of the five flag
\* bits and the unassigned bit 57, over an empty and a two-ended frame field
RawChoices ==
    {Or(f, n) : f \in SUBSET {63, 62, 61, 57, 56, 55}, n \in {Zero, {0, 54}}}

NoCall == [op |-> "none", a |-> Zero, b |-> Zero]

NoReturn == [kind |-> "None", val |-> <<>>]

NotShown == [flags |-> <<>>, number |-> Zero]

Init ==
    /\ endian \in {"little", "big"}
    /\ \E recs \in RecordSeqs :
           \E s \in (IF Len(recs) <= 1 THEN BOOLEAN ELSE {TRUE}) :
               file = [base |-> MappedOffset, bytes |-> Image(recs, endian),
                       seekable |-> s]
    /\ pos = Zero
    /\ io = <<>>
    /\ pc = "idle"
    /\ call = NoCall
    /\ ret = NoReturn
    /\ shown = NotShown
    /\ pages = <<>>
    /\ idx = 0
    /\ contig = <<>>
    /\ start = 0
    /\ prev = 0
    /\ result = "None"
    /\ stdout = <<>>

scan_vars == <<pages, idx, contig, start, prev, result, stdout>>

-----------------------------------------------------------------------------
(* Operations                                                              *)

\* write!(f, "{}", page)
Fmt(v) ==
    /\ pc = "idle"
    /\ call' = [op |-> "fmt", a |-> v, b |-> Zero]
    /\ shown' = fmt(v)
    /\ pc' = "returned"
    /\ UNCHANGED <<endian, file, pos, io, ret, scan_vars>>

GetByVaddr(vaddr) ==
    /\ pc = "idle"
    /\ LET r == get_by_vaddr(file, endian, pos, vaddr)
       IN  /\ ret' = [kind |-> r.kind, val |-> r.val]
           /\ io' = r.io
           /\ pos' = r.pos
    /\ call' = [op |-> "get_by_vaddr", a |-> vaddr, b |-> Zero]
    /\ pc' = "returned"
    /\ UNCHANGED <<endian, file, shown, scan_vars>>

GetByRange(start_, end_, overflow_checks) ==
    /\ pc = "idle"
    /\ LET r == get_by_range(file, endian, pos, start_, end_, overflow_checks)
       IN  /\ ret' = [kind |-> r.kind, val |-> r.val]
           /\ io' = r.io
           /\ pos' = r.pos
    /\ call' = [op |-> "get_by_range", a |-> start_, b |-> end_]
    /\ pc' = "returned"
    /\ UNCHANGED <<endian, file, shown, scan_vars>>

\* process_allocated_mem(bytes) up to the first iteration of its loop
ScanStart(bytes) ==
    /\ pc = "idle"
    /\ call' = [op |-> "process_allocated_mem", a |-> FromNat(bytes), b |-> Zero]
    /\ contig' = <<>>
    /\ start' = 0
    /\ prev' = 0
    /\ idx' = 0
    /\ LET r == get_by_range(file, endian, pos, MMAP_ADDR,
                             Add(MMAP_ADDR, FromNat(bytes)), TRUE)
       IN  /\ ret' = [kind |-> r.kind, val |-> r.val]
           /\ io' = r.io
           /\ pos' = r.pos
           /\ IF r.kind = "Ok"
              THEN pages' = r.val /\ pc' = "loop" /\ result' = result
              ELSE pages' = <<>> /\ pc' = "returned" /\ result' = r.kind
    /\ UNCHANGED <<endian, file, shown, stdout>>

\* variant: the iteration without the frame-not-visible check
ScanPage_unchecked ==
    /\ pc = "loop"
    /\ idx < Len(pages)
    /\ LET page == pages[idx + 1]
           frame == ToNat(pfn(page))
       IN  /\ IF frame # prev + 1
              THEN /\ contig' = Append(contig, <<start, prev>>)
                   /\ start' = frame
              ELSE UNCHANGED <<contig, start>>
           /\ prev' = frame
           /\ idx' = idx + 1
           /\ UNCHANGED <<result, pc>>
    /\ UNCHANGED <<endian, file, pos, io, call, ret, shown, pages, stdout>>

\* one iteration of the for loop
ScanPage ==
    /\ pc = "loop"
    /\ idx < Len(pages)
    /\ LET page == pages[idx + 1]
           frame == ToNat(pfn(page))
       IN  IF pfn(page) = Zero
           THEN /\ result' = "PermissionDenied"
                /\ pc' = "returned"
                /\ UNCHANGED <<idx, contig, start, prev>>
           ELSE /\ IF frame # prev + 1
                   THEN /\ contig' = Append(contig, <<start, prev>>)
                        /\ start' = frame
                   ELSE UNCHANGED <<contig, start>>
                /\ prev' = frame
                /\ idx' = idx + 1
                /\ UNCHANGED <<result, pc>>
    /\ UNCHANGED <<endian, file, pos, io, call, ret, shown, pages, stdout>>

\* the loop is exhausted: print the count and the histogram, return Ok(())
ScanFinish ==
    /\ pc = "loop"
    /\ idx = Len(pages)
    /\ stdout' = <<Len(contig), categorize(RunLengths(contig))>>
    /\ result' = "Ok"
    /\ pc' = "returned"
    /\ UNCHANGED <<endian, file, pos, io, call, ret, shown, pages, idx,
                   contig, start, prev>>

Next ==
    \/ \E v \in RawChoices : Fmt(v)
    \/ \E vaddr \in Addresses \cup {Zero} : GetByVaddr(vaddr)
    \/ \E a \in Starts, b \in Addresses :
           \E oc \in Builds(a, b) : GetByRange(a, b, oc)
    \/ \E d \in Distances : ScanStart(d)
    \/ ScanPage
    \/ ScanFinish

Spec == Init /\ [][Next]_vars

-----------------------------------------------------------------------------
(* Vocabulary of the properties                                            *)

\* the frame numbers of the entries handed to the scan, in input order
Frames == [i \in 1..Len(pages) |-> ToNat(pfn(pages[i]))]

InScan == call.op = "process_allocated_mem"

\* the scan was given at least one entry and each has a visible frame
AllVisible == pages # <<>> /\ \A i \in 1..Len(pages) : pfn(pages[i]) # Zero

\* process_allocated_mem has returned from a scan of visible frames
Scanned == InScan /\ pc = "returned" /\ ret.kind = "Ok" /\ AllVisible

\* positions where a maximal block of successive frames begins / ends
BlockStarts(fr) == {i \in 1..Len(fr) : i = 1 \/ fr[i] # fr[i - 1] + 1}

BlockEnds(fr) == {i \in 1..Len(fr) : i = Len(fr) \/ fr[i + 1] # fr[i] + 1}

Nth(S, k) == CHOOSE x \in S : Cardinality({y \in S : y < x}) = k - 1

\* the maximal blocks as inclusive [first frame, last frame] pairs
MaximalRuns(fr) ==
    [k \in 1..Cardinality(BlockStarts(fr)) |->
        <<fr[Nth(BlockStarts(fr), k)], fr[Nth(BlockEnds(fr), k)]>>]

\* the number of entries in each maximal block
BlockLengths(fr) ==
    [k \in 1..Cardinality(BlockStarts(fr)) |->
        Nth(BlockEnds(fr), k) - Nth(BlockStarts(fr), k) + 1]

\* length -> number of blocks of that length
HistogramOf(lens) ==
    [l \in {lens[k] : k \in 1..Len(lens)} |->
        Cardinality({k \in 1..Len(lens) : lens[k] = l})]

Misaligned(x) == \E b \in x : b < PAGE_SHIFT

IoErrors == {"UnexpectedEof", "NotSeekable"}

-----------------------------------------------------------------------------
(* Properties                                                              *)

\* C1: a scan of N >= 1 entries whose frames are f, f+1, ..., f+N-1 (f # 0)
\* records exactly the one run [f, f+N-1]: run count 1, histogram {N: 1}.
C1_ContiguousIsOneRun ==
    (Scanned /\ \A i \in 2..Len(pages) : Frames[i] = Frames[i - 1] + 1)
        => /\ result = "Ok"
           /\ contig = << <<Frames[1], Frames[Len(pages)]>> >>
           /\ stdout = <<1, Len(pages) :> 1>>

\* C2: for a non-empty scan of non-zero frames the recorded runs are, in
\* input order, the maximal blocks of successive frames, each as [first
\* frame, last frame], and the histogram counts the blocks by length.
C2_RunsAreMaximalBlocks ==
    Scanned
        => /\ result = "Ok"
           /\ contig = MaximalRuns(Frames)
           /\ stdout = <<Len(MaximalRuns(Frames)), HistogramOf(BlockLengths(Frames))>>

\* C3: when an entry of the scanned range has frame 0, at whatever position,
\* the scan returns PermissionDenied and prints neither count nor histogram;
\* the loop never consumes a zero frame, so none becomes start or prev.
C3_ZeroFrameFails ==
    InScan
        => /\ \A i \in 1..idx : pfn(pages[i]) # Zero
           /\ (pc = "returned" /\ \E i \in 1..Len(pages) : pfn(pages[i]) = Zero)
                 => (result = "PermissionDenied" /\ stdout = <<>>)

C3_Witness ==
    /\ InScan /\ pc = "returned" /\ result = "PermissionDenied"
    /\ Len(pages) >= 3 /\ idx = 1

\* C4: for page-aligned start <= end, get_by_range(start, end) returns what
\* get_by_vaddr returns at start, start+4096, ..., end-4096, in order: it has
\* (end - start)/4096 entries, and entry i is the 8-byte record stored at
\* byte offset ((start >> 12) + i) * 8 of the source.
C4_RangeEqualsSingles ==
    (/\ call.op = "get_by_range" /\ pc = "returned"
     /\ ~Misaligned(call.a) /\ ~Misaligned(call.b) /\ ~Less(call.b, call.a))
        => LET n == ToNat(Shr(Sub(call.b, call.a), PAGE_SHIFT))
               first == ToNat(Shr(Sub(call.a, MMAP_ADDR), PAGE_SHIFT))
               single(i) == get_by_vaddr(file, endian, Zero,
                                         Add(call.a, Shl(FromNat(i - 1), PAGE_SHIFT)))
               stored(i) == [j \in 1..8 |-> file.bytes[8 * (first + i - 1) + j]]
           IN  /\ ret.kind = "Ok"
                    => /\ Len(ret.val) = n
                       /\ \A i \in 1..n :
                            /\ single(i).kind = "Ok"
                            /\ ret.val[i] = single(i).val[1]
                            /\ ret.val[i] = transmute(stored(i), endian)
                            /\ single(i).io[1].at
                                 = Times8(Add(Shr(call.a, PAGE_SHIFT), FromNat(i - 1)))
               /\ (file.seekable /\ \A i \in 1..n : single(i).kind = "Ok")
                    => ret.kind = "Ok"

C4_Witness ==
    /\ call.op = "get_by_range" /\ pc = "returned" /\ ret.kind = "Ok"
    /\ call.a # MMAP_ADDR
    /\ Len(ret.val) >= 2 /\ ret.val[1] # ret.val[2]

\* C5: get_by_vaddr at a misaligned address, and get_by_range with a
\* misaligned start or a length that is no multiple of the page size, panic
\* before any seek or read: no value, no I/O error, the cursor untouched.
C5_MisalignedPanics ==
    (pc = "returned"
     /\ \/ call.op = "get_by_vaddr" /\ Misaligned(call.a)
        \/ call.op = "get_by_range"
             /\ (Misaligned(call.a) \/ Misaligned(Sub(call.b, call.a))))
        => ret.kind = "Panic" /\ ret.val = <<>> /\ io = <<>> /\ pos = Zero

C5_Witness ==
    /\ call.op = "get_by_range" /\ pc = "returned" /\ ret.kind = "Panic"
    /\ ~Misaligned(call.a) /\ Misaligned(Sub(call.b, call.a))
    /\ ~Less(call.b, call.a)

\* C6: when the source cannot seek, or holds fewer bytes than the range
\* needs from its offset, get_by_range returns an I/O error and no entries;
\* process_allocated_mem then returns that error having scanned no entry,
\* recorded no run and printed nothing.
C6_AllOrNothing ==
    /\ (/\ call.op = "get_by_range" /\ pc = "returned"
        /\ ~Misaligned(call.a) /\ ~Misaligned(call.b) /\ ~Less(call.b, call.a)
        /\ LET n == ToNat(Shr(Sub(call.b, call.a), PAGE_SHIFT))
               first == ToNat(Shr(Sub(call.a, MMAP_ADDR), PAGE_SHIFT))
           IN  ~file.seekable \/ (n > 0 /\ 8 * (first + n) > Len(file.bytes)))
          => ret.kind \in IoErrors /\ ret.val = <<>>
    /\ (InScan
        /\ LET n == ToNat(Shr(call.a, PAGE_SHIFT))
           IN  /\ ~Misaligned(call.a)
               /\ ~file.seekable \/ (n > 0 /\ 8 * n > Len(file.bytes)))
          => /\ pc = "returned" /\ ret.kind \in IoErrors /\ result = ret.kind
             /\ pages = <<>> /\ idx = 0 /\ contig = <<>> /\ stdout = <<>>

C6_Witness ==
    /\ InScan /\ pc = "returned" /\ result = "UnexpectedEof"
    /\ file.bytes # <<>>

\* C7: a scan of N >= 1 non-zero frames none of which is its predecessor + 1
\* records the N runs [f, f], one per input frame: run count N, histogram
\* {1: N}.
C7_IsolatedFrames ==
    (Scanned /\ \A i \in 2..Len(pages) : Frames[i] # Frames[i - 1] + 1)
        => /\ result = "Ok"
           /\ contig = [i \in 1..Len(pages) |-> <<Frames[i], Frames[i]>>]
           /\ stdout = <<Len(pages), 1 :> Len(pages)>>

\* the bit positions the pagemap format defines
DefinedBits == {63, 62, 61, 56, 55} \cup 0..54

\* the masks of the flags a rendering shows as set, OR-ed with its number
Reassembled(text) ==
    UNION { IF text.flags[1] = "P" THEN PAGEMAP_PRESENT_MASK ELSE Zero,
            IF text.flags[2] = "S" THEN PAGEMAP_SWAP_MASK ELSE Zero,
            IF text.flags[3] = "F" THEN PAGEMAP_FILE_MASK ELSE Zero,
            IF text.flags[4] = "X" THEN PAGEMAP_EXCLUSIVE_MASK ELSE Zero,
            IF text.flags[5] = "D" THEN PAGEMAP_SOFT_DIRTY_MASK ELSE Zero,
            text.number }

\* C8: for a value whose set bits are all defined positions, OR-ing the
\* masks of the predicates that hold with pfn() gives the value back.
C8_RoundTrip ==
    (call.op = "fmt" /\ call.a \subseteq DefinedBits)
        => Reassembled(shown) = call.a

C8_Witness ==
    /\ call.op = "fmt"
    /\ call.a \subseteq DefinedBits
    /\ {63, 55, 54, 0} \subseteq call.a

\* C9: once a non-empty scan of non-zero frames has returned, the run open
\* at the last entry has been recorded: the last recorded run ends at the
\* last entry's frame, every entry's frame lies in a recorded run, and the
\* histogram's lengths times counts add up to the number of entries.
C9_TrailingRunRecorded ==
    Scanned
        => /\ contig # <<>>
           /\ contig[Len(contig)][2] = Frames[Len(pages)]
           /\ \A i \in 1..Len(pages) :
                \E k \in 1..Len(contig) :
                    contig[k][1] <= Frames[i] /\ Frames[i] <= contig[k][2]
           /\ LET hist == stdout[2]
                  RECURSIVE Total(_)
                  Total(D) == IF D = {} THEN 0
                              ELSE LET l == CHOOSE x \in D : TRUE
                                   IN  l * hist[l] + Total(D \ {l})
              IN  Total(DOMAIN hist) = Len(pages)

\* C10: the first entry only opens a run at its frame, whatever its value:
\* nothing is recorded at the first entry, and the start and the end of
\* every recorded run are frames of entries of the input.
C10_FirstEntryOnlyOpens ==
    InScan
        => /\ idx = 1 => (contig = <<>> /\ start = Frames[1] /\ prev = Frames[1])
           /\ \A k \in 1..Len(contig) :
                /\ \E i \in 1..Len(pages) : contig[k][1] = Frames[i]
                /\ \E i \in 1..Len(pages) : contig[k][2] = Frames[i]

=============================================================================
